---- MODULE Spec2Model ----
(***************************************************************************)
(* Model of grep-rs (src/src/main.rs): the pattern tokenizer               *)
(* tokenize_pattern and the backtracking matcher match_pattern, matchhere, *)
(* matchoneormore and matchone.                                            *)
(*                                                                         *)
(* A Rust &str is modelled as a sequence of characters, each character a   *)
(* string naming it ("U+00E9" is e with acute accent).  Rust indexes and   *)
(* slices a &str by BYTE offset, so the model keeps the encoded width of   *)
(* every character (Utf8Len) and computes str::len and &s[i..] on byte     *)
(* offsets: a slice whose offset is past the end or inside a character     *)
(* panics, as it does in Rust.                                             *)
(*                                                                         *)
(* A matcher result is one of "true", "false" or one of the three panics   *)
(* the matcher can raise.                                                  *)
(***************************************************************************)
EXTENDS Integers, Sequences, FiniteSets, TLC

VARIABLES pattern, text, pc, compiled, result

vars == <<pattern, text, pc, compiled, result>>

-----------------------------------------------------------------------------
(* Bounds of the model *)

\* longest pattern of the matching specification Spec
MaxPatLen == 4
\* longest subject text (in characters) of the matching specification Spec
MaxTextLen == 3
\* longest pattern of the compilation specification SpecCompile
MaxCompileLen == 4

-----------------------------------------------------------------------------
(* Characters and strings *)

\* the characters with a two-byte UTF-8 encoding among those of the model
MultiByteChars == {"U+00E9"}

\* char::len_utf8
Utf8Len(c) == IF c \in MultiByteChars THEN 2 ELSE 1

\* char::is_ascii_digit, on the characters of the model
IsAsciiDigit(c) == c \in {"0", "1", "2", "3", "4", "5", "6", "7", "8", "9"}

\* char::is_ascii_alphanumeric, on the characters of the model
IsAsciiAlphanumeric(c) == IsAsciiDigit(c) \/ c \in {"a", "b", "d", "w", "z"}

\* str::len: the length in bytes
RECURSIVE StrLen(_)
StrLen(s) == IF s = <<>> THEN 0 ELSE Utf8Len(Head(s)) + StrLen(Tail(s))

\* &s[i..]: the suffix from byte offset i; panics (ok = FALSE) when i is past
\* the end of s or is not on a character boundary
RECURSIVE SliceFrom(_, _)
SliceFrom(s, i) ==
    IF i = 0 THEN [ok |-> TRUE, str |-> s]
    ELSE IF s = <<>> THEN [ok |-> FALSE, str |-> <<>>]
    ELSE IF i < Utf8Len(Head(s)) THEN [ok |-> FALSE, str |-> <<>>]
    ELSE SliceFrom(Tail(s), i - Utf8Len(Head(s)))

\* str::starts_with(&String): UTF-8 is prefix-free, so a byte prefix that is
\* itself a string is a prefix character by character
StartsWith(s, prefix) ==
    /\ Len(prefix) <= Len(s)
    /\ SubSeq(s, 1, Len(prefix)) = prefix

\* the index of the first occurrence of c in s, or Len(s) + 1
RECURSIVE IndexOf(_, _)
IndexOf(s, c) ==
    IF s = <<>> THEN 1
    ELSE IF Head(s) = c THEN 1
    ELSE 1 + IndexOf(Tail(s), c)

\* str::split('|'): the pieces between the separators, empty pieces kept
RECURSIVE Split(_)
Split(s) ==
    LET k == IndexOf(s, "|") IN
    IF k > Len(s) THEN <<s>>
    ELSE <<SubSeq(s, 1, k - 1)>> \o Split(SubSeq(s, k + 1, Len(s)))

-----------------------------------------------------------------------------
(* enum Token *)

Literal(c) == [kind |-> "Literal", c |-> c]
Digit == [kind |-> "Digit"]
Word == [kind |-> "Word"]
Wildcard == [kind |-> "Wildcard"]
Class(s) == [kind |-> "Class", s |-> s]
NegClass(s) == [kind |-> "NegClass", s |-> s]
OneOrMore(t) == [kind |-> "OneOrMore", inner |-> t]
ZeroOrOne(t) == [kind |-> "ZeroOrOne", inner |-> t]
Alternation(options) == [kind |-> "Alternation", options |-> options]

-----------------------------------------------------------------------------
(* tokenize_pattern *)

CompileOk(as, ae, tokens) ==
    [ok |-> TRUE, error |-> "", anchor_start |-> as, anchor_end |-> ae,
     tokens |-> tokens]

\* a panic of tokenize_pattern: "DanglingQuantifier" for the two
\* "cannot be the first token" panics, "InvalidEscape" for the two escape panics
CompileError(kind) ==
    [ok |-> FALSE, error |-> kind, anchor_start |-> FALSE, anchor_end |-> FALSE,
     tokens |-> <<>>]

\* EscapeToken with the slip of taking an unknown escape as a literal character
EscapeTokenLenient(next) ==
    CASE next = "d" -> [ok |-> TRUE, token |-> Digit]
      [] next = "w" -> [ok |-> TRUE, token |-> Word]
      [] OTHER -> [ok |-> TRUE, token |-> Literal(next)]

\* the token of the escape \next, or the panic "Unhandled escape" (ok = FALSE)
EscapeToken(next) ==
    CASE next = "d" -> [ok |-> TRUE, token |-> Digit]
      [] next = "w" -> [ok |-> TRUE, token |-> Word]
      [] next = "\\" -> [ok |-> TRUE, token |-> Literal("\\")]
      [] OTHER -> [ok |-> FALSE, token |-> Digit]

\* the loop `while let Some(c) = chars.next()`: chars is what the iterator has
\* left, tokens the vector built so far; the result is the vector or a panic
RECURSIVE Scan(_, _)
Scan(chars, tokens) ==
    IF chars = <<>> THEN [ok |-> TRUE, error |-> "", tokens |-> tokens]
    ELSE
    LET c == Head(chars)
        rest == Tail(chars)
    IN
    CASE c = "+" ->
            IF tokens # <<>>
            THEN Scan(rest, Append(SubSeq(tokens, 1, Len(tokens) - 1),
                                   OneOrMore(tokens[Len(tokens)])))
            ELSE [ok |-> FALSE, error |-> "DanglingQuantifier", tokens |-> <<>>]
      [] c = "?" ->
            IF tokens # <<>>
            THEN Scan(rest, Append(SubSeq(tokens, 1, Len(tokens) - 1),
                                   ZeroOrOne(tokens[Len(tokens)])))
            ELSE [ok |-> FALSE, error |-> "DanglingQuantifier", tokens |-> <<>>]
      [] c = "." -> Scan(rest, Append(tokens, Wildcard))
      [] c = "\\" ->
            IF rest # <<>>
            THEN LET e == EscapeToken(Head(rest)) IN
                 IF e.ok THEN Scan(Tail(rest), Append(tokens, e.token))
                 ELSE [ok |-> FALSE, error |-> "InvalidEscape", tokens |-> <<>>]
            ELSE [ok |-> FALSE, error |-> "InvalidEscape", tokens |-> <<>>]
      [] c = "[" ->
            LET negated == rest # <<>> /\ Head(rest) = "^"
                body == IF negated THEN Tail(rest) ELSE rest
                k == IndexOf(body, "]")
                class_content == SubSeq(body, 1, k - 1)
                after == SubSeq(body, k + 1, Len(body))
            IN
            IF negated THEN Scan(after, Append(tokens, NegClass(class_content)))
            ELSE Scan(after, Append(tokens, Class(class_content)))
      [] c = "(" ->
            LET k == IndexOf(rest, ")")
                alternation_content == SubSeq(rest, 1, k - 1)
                after == SubSeq(rest, k + 1, Len(rest))
            IN
            Scan(after, Append(tokens, Alternation(Split(alternation_content))))
      [] OTHER -> Scan(rest, Append(tokens, Literal(c)))

\* the pattern without a leading '^'
StripStart(p) == IF p # <<>> /\ Head(p) = "^" THEN Tail(p) ELSE p

\* the pattern without a trailing '$'
StripEnd(p) ==
    IF p # <<>> /\ p[Len(p)] = "$" THEN SubSeq(p, 1, Len(p) - 1) ELSE p

tokenize_pattern(p) ==
    LET anchor_start == p # <<>> /\ Head(p) = "^"
        p1 == StripStart(p)
        anchor_end == p1 # <<>> /\ p1[Len(p1)] = "$"
        p2 == StripEnd(p1)
        scanned == Scan(p2, <<>>)
    IN
    IF scanned.ok THEN CompileOk(anchor_start, anchor_end, scanned.tokens)
    ELSE CompileError(scanned.error)

-----------------------------------------------------------------------------
(* The matcher *)

PanicTokens == "panic: token slice out of range"
PanicText == "panic: subject slice out of range or inside a character"
PanicMatchOne == "panic: Quantifier token should be handled in matchhere"

IsPanic(r) == r \in {PanicTokens, PanicText, PanicMatchOne}

Bool(b) == IF b THEN "true" ELSE "false"

matchone(next_char, token) ==
    CASE token.kind = "Literal" -> Bool(next_char = token.c)
      [] token.kind = "Digit" -> Bool(IsAsciiDigit(next_char))
      [] token.kind = "Word" ->
            Bool(IsAsciiAlphanumeric(next_char) \/ next_char = "_")
      [] token.kind = "Wildcard" -> Bool(next_char # "\n")
      [] token.kind = "Class" ->
            Bool(\E k \in 1..Len(token.s) : next_char = token.s[k])
      [] token.kind = "NegClass" ->
            Bool(\A k \in 1..Len(token.s) : next_char # token.s[k])
      [] OTHER -> PanicMatchOne

RECURSIVE matchhere(_, _, _)
RECURSIVE matchoneormore(_, _, _, _)
RECURSIVE OneOrMoreLoop(_, _, _, _)
RECURSIVE AlternationLoop(_, _, _, _)

\* the loop `for option in options` of matchhere, over the options still to try
AlternationLoop(txt, options, rest, anchor_end) ==
    IF options = <<>> THEN "false"
    ELSE
    LET option == Head(options) IN
    IF StartsWith(txt, option)
    THEN LET sl == SliceFrom(txt, StrLen(option)) IN
         IF ~sl.ok THEN PanicText
         ELSE LET r == matchhere(sl.str, rest, anchor_end) IN
              IF r = "false"
              THEN AlternationLoop(txt, Tail(options), rest, anchor_end)
              ELSE r
    ELSE AlternationLoop(txt, Tail(options), rest, anchor_end)

matchhere(txt, tokens, anchor_end) ==
    IF tokens = <<>> THEN Bool(~anchor_end \/ txt = <<>>)
    ELSE
    LET t == Head(tokens)
        rest == Tail(tokens)
    IN
    CASE t.kind = "OneOrMore" -> matchoneormore(txt, t.inner, rest, anchor_end)
      [] t.kind = "ZeroOrOne" ->
            LET first == IF txt = <<>> THEN "false"
                         ELSE matchone(Head(txt), t.inner)
            IN
            IF IsPanic(first) THEN first
            ELSE IF first = "true"
            THEN LET sl == SliceFrom(txt, 1) IN
                 IF ~sl.ok THEN PanicText
                 ELSE LET r == matchhere(sl.str, rest, anchor_end) IN
                      IF r = "false" THEN matchhere(txt, rest, anchor_end)
                      ELSE r
            ELSE matchhere(txt, rest, anchor_end)
      [] t.kind = "Alternation" ->
            AlternationLoop(txt, t.options, rest, anchor_end)
      [] OTHER ->
            LET first == IF txt = <<>> THEN "false" ELSE matchone(Head(txt), t)
            IN
            IF first = "true"
            THEN LET sl == SliceFrom(txt, 1) IN
                 IF ~sl.ok THEN PanicText
                 ELSE matchhere(sl.str, rest, anchor_end)
            ELSE first

\* the loop `for i in 1..text.len()` of matchoneormore, from byte offset i
OneOrMoreLoop(txt, i, tokens, anchor_end) ==
    IF i >= StrLen(txt) THEN "false"
    ELSE
    LET sl == SliceFrom(txt, i) IN
    IF ~sl.ok THEN PanicText
    ELSE IF tokens = <<>> THEN PanicTokens
    ELSE LET r == matchhere(sl.str, Tail(tokens), anchor_end) IN
         IF r = "false" THEN OneOrMoreLoop(txt, i + 1, tokens, anchor_end)
         ELSE r

matchoneormore(txt, inner_token, tokens, anchor_end) ==
    LET first == IF txt = <<>> THEN "false"
                 ELSE matchone(Head(txt), inner_token)
    IN
    IF first = "true" THEN OneOrMoreLoop(txt, 1, tokens, anchor_end)
    ELSE first

\* the loop `for i in 0..text.len()` of match_pattern, from byte offset i
RECURSIVE SearchLoop(_, _, _, _)
SearchLoop(txt, i, tokens, anchor_end) ==
    IF i >= StrLen(txt) THEN "false"
    ELSE
    LET sl == SliceFrom(txt, i) IN
    IF ~sl.ok THEN PanicText
    ELSE LET r == matchhere(sl.str, tokens, anchor_end) IN
         IF r = "false" THEN SearchLoop(txt, i + 1, tokens, anchor_end)
         ELSE r

\* match_pattern after its call of tokenize_pattern has returned c
match_compiled(txt, c) ==
    IF c.anchor_start THEN matchhere(txt, c.tokens, c.anchor_end)
    ELSE SearchLoop(txt, 0, c.tokens, c.anchor_end)

-----------------------------------------------------------------------------
(* The program as a state machine: one call of match_pattern(text, pattern) *)

\* the characters a pattern of Spec is made of
PatternChars ==
    {"^", "$", "+", "?", ".", "(", "|", ")", "[", "]", "a", "U+00E9", "\\", "d"}

\* the characters a subject text is made of
TextChars == {"a", "1", "U+00E9"}

\* the characters a pattern of SpecCompile is made of
CompileChars ==
    {"^", "$", "+", "?", ".", "\\", "d", "w", "z", "[", "]", "(", "|", ")"}

\* the strings over S of at most n characters
Strings(S, n) == UNION {[1..k -> S] : k \in 0..n}

NoCompiled == CompileError("")

Init ==
    /\ pattern \in Strings(PatternChars, MaxPatLen)
    /\ text \in Strings(TextChars, MaxTextLen)
    /\ pc = "start"
    /\ compiled = NoCompiled
    /\ result = "none"

InitCompile ==
    /\ pattern \in Strings(CompileChars, MaxCompileLen)
    /\ text \in Strings(TextChars, 1)
    /\ pc = "start"
    /\ compiled = NoCompiled
    /\ result = "none"

\* match_pattern, line 110: the pattern is tokenized, or the program panics
TokenizePattern ==
    /\ pc = "start"
    /\ compiled' = tokenize_pattern(pattern)
    /\ pc' = IF compiled'.ok THEN "tokenized" ELSE "compile_panic"
    /\ UNCHANGED <<pattern, text, result>>

\* match_pattern, lines 112-122: the search, which returns or panics
MatchPattern ==
    /\ pc = "tokenized"
    /\ result' = match_compiled(text, compiled)
    /\ pc' = IF IsPanic(result') THEN "match_panic" ELSE "returned"
    /\ UNCHANGED <<pattern, text, compiled>>

Next == TokenizePattern \/ MatchPattern

Spec == Init /\ [][Next]_vars

SpecCompile == InitCompile /\ [][Next]_vars

-----------------------------------------------------------------------------
(* Vocabulary of the properties *)

Searched == pc \in {"returned", "match_panic"}

Tokenized == pc \in {"tokenized", "returned", "match_panic"}

\* s without its first k characters
Drop(s, k) == SubSeq(s, k + 1, Len(s))

IsAtomic(t) ==
    t.kind \in {"Literal", "Digit", "Word", "Wildcard", "Class", "NegClass"}

IsQuantifier(t) == t.kind \in {"OneOrMore", "ZeroOrOne"}

\* the character c satisfies the atomic token t
Satisfies(c, t) == matchone(c, t) = "true"

\* the string o occurs in s as a contiguous substring
Occurs(o, s) == \E k \in 0..Len(s) : StartsWith(Drop(s, k), o)

\* the characters that tokenize_pattern treats specially outside brackets
SpecialChars == {"^", "$", "\\", "[", "(", ".", "+", "?"}

-----------------------------------------------------------------------------
(* C1 *)

\* C1: matching is total: once a pattern has compiled, match_pattern returns
\* true or false on every subject and never panics.
C1_MatchingTotal == Searched => result \in {"true", "false"}

-----------------------------------------------------------------------------
(* C2 *)

\* C2: for an atomic token t, the pattern t+ matches exactly the subjects that
\* hold a character satisfying t, and ^t+ exactly the subjects whose first
\* character satisfies t.
C2_OneOrMoreOfAtom ==
    ( /\ Searched
      /\ Len(compiled.tokens) = 1
      /\ compiled.tokens[1].kind = "OneOrMore"
      /\ IsAtomic(compiled.tokens[1].inner)
      /\ ~compiled.anchor_end )
    => LET t == compiled.tokens[1].inner IN
       result = Bool(IF compiled.anchor_start
                     THEN text # <<>> /\ Satisfies(text[1], t)
                     ELSE \E k \in 1..Len(text) : Satisfies(text[k], t))

-----------------------------------------------------------------------------
(* C3 *)

\* C3: with anchor_start the result of match_pattern is that of matchhere on
\* the whole subject; without it the result is true exactly when matchhere
\* succeeds at some start offset from 0 to the length of the subject, the
\* length itself included.
C3_TopLevelSearch ==
    Searched =>
        IF compiled.anchor_start
        THEN result = matchhere(text, compiled.tokens, compiled.anchor_end)
        ELSE (result = "true") <=>
             \E k \in 0..Len(text) :
                matchhere(Drop(text, k), compiled.tokens, compiled.anchor_end)
                    = "true"

-----------------------------------------------------------------------------
(* C4 *)

Min(S) == CHOOSE x \in S : \A y \in S : x <= y

\* the first position of the content of the class opened at position p of s
ClassBodyStart(s, p) == IF p < Len(s) /\ s[p + 1] = "^" THEN p + 2 ELSE p + 1

\* the positions that can close the class or group opened at position p of s
Closes(s, p) ==
    IF s[p] = "["
    THEN {q \in ClassBodyStart(s, p)..Len(s) : s[q] = "]"}
    ELSE {q \in (p + 1)..Len(s) : s[q] = ")"}

\* the position that follows the construct starting at position p of s: an
\* escape takes two characters, a class runs to its ']' and a group to its ')',
\* or to the end of s when there is none
SkipConstruct(s, p) ==
    CASE s[p] = "\\" -> p + 2
      [] s[p] \in {"[", "("} ->
            IF Closes(s, p) = {} THEN Len(s) + 1 ELSE Min(Closes(s, p)) + 1
      [] OTHER -> p + 1

\* the positions of s at which the scan starts a construct, that is the
\* positions outside brackets and parentheses and not of an escaped character
RECURSIVE TopLevelFrom(_, _)
TopLevelFrom(s, p) ==
    IF p > Len(s) THEN {} ELSE {p} \cup TopLevelFrom(s, SkipConstruct(s, p))

TopLevel(s) == TopLevelFrom(s, 1)

\* a '+' or '?' met when no token has been emitted
DanglingAt(s, p) ==
    /\ s[p] \in {"+", "?"}
    /\ \A q \in TopLevel(s) : q < p => s[q] \in {"+", "?"}

\* a backslash that ends the pattern or is followed by none of d, w, backslash
BadEscapeAt(s, p) ==
    /\ s[p] = "\\"
    /\ (p = Len(s) \/ s[p + 1] \notin {"d", "w", "\\"})

BadPositions(s) == {p \in TopLevel(s) : DanglingAt(s, p) \/ BadEscapeAt(s, p)}

\* s has, at top-level position p, a '[' or '(' that nothing closes
Unterminated(s, p) ==
    /\ p \in TopLevel(s)
    /\ s[p] \in {"[", "("}
    /\ Closes(s, p) = {}

\* the token an unterminated class or group at position p of s compiles to
UnterminatedToken(s, p) ==
    IF s[p] = "("
    THEN Alternation(Split(Drop(s, p)))
    ELSE IF p < Len(s) /\ s[p + 1] = "^"
         THEN NegClass(Drop(s, p + 1))
         ELSE Class(Drop(s, p))

\* C4: compilation fails exactly when, after the anchors are stripped, the scan
\* meets a '+' or '?' with no token emitted (DanglingQuantifier) or a backslash
\* followed by none of d, w, backslash or by nothing (InvalidEscape); every
\* other pattern compiles, an unterminated '[' or '(' to a class or alternation
\* whose content is the rest of the pattern.
C4_CompileFailsExactly ==
    pc # "start" =>
        LET s == StripEnd(StripStart(pattern))
            bad == BadPositions(s)
        IN
        /\ ~compiled.ok <=> bad # {}
        /\ bad # {} =>
              compiled.error = IF DanglingAt(s, Min(bad))
                               THEN "DanglingQuantifier" ELSE "InvalidEscape"
        /\ \A p \in 1..Len(s) :
              ( /\ Unterminated(s, p)
                /\ \A q \in bad : q > p )
              => /\ compiled.ok
                 /\ compiled.tokens[Len(compiled.tokens)] = UnterminatedToken(s, p)

\* an unterminated group that holds a backslash, a '+' or a '?' has compiled
C4_Witness ==
    /\ pc = "tokenized"
    /\ LET s == StripEnd(StripStart(pattern)) IN
       \E p \in 1..Len(s) :
          /\ Unterminated(s, p)
          /\ s[p] = "("
          /\ \E q \in (p + 1)..Len(s) : s[q] \in {"\\", "+", "?"}
          /\ compiled.tokens[Len(compiled.tokens)] = UnterminatedToken(s, p)

-----------------------------------------------------------------------------
(* C5 *)

\* the pattern is ^L$ for a string L of ordinary literal characters
IsAnchoredLiteral(p) ==
    /\ Len(p) >= 2
    /\ p[1] = "^"
    /\ p[Len(p)] = "$"
    /\ \A k \in 2..(Len(p) - 1) : p[k] \notin SpecialChars

\* C5: a pattern ^L$ of ordinary literal characters compiles to both anchors
\* and one Literal token per character of L, and matches the subject L only.
C5_AnchoredLiteral ==
    IsAnchoredLiteral(pattern) =>
        LET L == SubSeq(pattern, 2, Len(pattern) - 1) IN
        /\ pc # "start" =>
              compiled = CompileOk(TRUE, TRUE, [k \in 1..Len(L) |-> Literal(L[k])])
        /\ Searched => result = Bool(text = L)

-----------------------------------------------------------------------------
(* C6 *)

\* the pattern is one closed alternation group and nothing else
IsSingleGroup(p) ==
    /\ Len(p) >= 2
    /\ p[1] = "("
    /\ p[Len(p)] = ")"
    /\ \A k \in 2..(Len(p) - 1) : p[k] # ")"

\* C6, first part: a pattern that is a single alternation group matches a
\* subject exactly when one of its options occurs in the subject.
C6_SingleGroup ==
    (Searched /\ IsSingleGroup(pattern)) =>
        LET options == compiled.tokens[1].options IN
        result = Bool(\E o \in 1..Len(options) : Occurs(options[o], text))

\* C6, second part: the Alternation step of matchhere succeeds exactly when the
\* remaining subject starts with some option and the tokens after the
\* alternation match what follows that option.
C6_AlternationStep ==
    Tokenized =>
        \A j \in 1..Len(compiled.tokens) : \A k \in 0..Len(text) :
            LET tok == compiled.tokens[j]
                r == Drop(text, k)
                T == Drop(compiled.tokens, j)
                res == matchhere(r, Drop(compiled.tokens, j - 1),
                                 compiled.anchor_end)
            IN
            tok.kind = "Alternation" =>
                ( (res = "true") <=>
                  \E o \in 1..Len(tok.options) :
                     /\ StartsWith(r, tok.options[o])
                     /\ matchhere(Drop(r, Len(tok.options[o])), T,
                                  compiled.anchor_end) = "true" )

\* C6: both parts.
C6_Alternation == C6_SingleGroup /\ C6_AlternationStep

-----------------------------------------------------------------------------
(* C7 *)

\* C7: the OneOrMore step of matchhere on the remaining subject r returns false
\* when r is empty or its first character does not satisfy the wrapped token,
\* and otherwise returns true exactly when the tokens T after the quantifier,
\* none of them skipped, match r without its first i characters for some i
\* from 1 to the length of r, that length included.
C7_OneOrMoreStep ==
    Tokenized =>
        \A j \in 1..Len(compiled.tokens) : \A k \in 0..Len(text) :
            LET tok == compiled.tokens[j]
                r == Drop(text, k)
                T == Drop(compiled.tokens, j)
                res == matchhere(r, Drop(compiled.tokens, j - 1),
                                 compiled.anchor_end)
            IN
            (tok.kind = "OneOrMore" /\ IsAtomic(tok.inner)) =>
                IF r = <<>> \/ ~Satisfies(Head(r), tok.inner)
                THEN res = "false"
                ELSE (res = "true") <=>
                     \E i \in 1..Len(r) :
                        matchhere(Drop(r, i), T, compiled.anchor_end) = "true"

-----------------------------------------------------------------------------
(* C8 *)

\* C8: in every token sequence the compiler returns, the child of a OneOrMore
\* or ZeroOrOne token is an atomic token, so that matchone never meets a
\* quantifier or an alternation.
C8_QuantifierWrapsAtom ==
    /\ Tokenized =>
          \A j \in 1..Len(compiled.tokens) :
             IsQuantifier(compiled.tokens[j]) => IsAtomic(compiled.tokens[j].inner)
    /\ Searched => result # PanicMatchOne

-----------------------------------------------------------------------------
(* C9 *)

\* C9: the ZeroOrOne step of matchhere on the remaining subject r returns true
\* exactly when either the first character of r satisfies the wrapped token and
\* the tokens T after the quantifier match the rest of r, or T matches r itself.
C9_ZeroOrOneStep ==
    Tokenized =>
        \A j \in 1..Len(compiled.tokens) : \A k \in 0..Len(text) :
            LET tok == compiled.tokens[j]
                r == Drop(text, k)
                T == Drop(compiled.tokens, j)
                res == matchhere(r, Drop(compiled.tokens, j - 1),
                                 compiled.anchor_end)
            IN
            (tok.kind = "ZeroOrOne" /\ IsAtomic(tok.inner)) =>
                ( (res = "true") <=>
                  \/ /\ r # <<>>
                     /\ Satisfies(Head(r), tok.inner)
                     /\ matchhere(Tail(r), T, compiled.anchor_end) = "true"
                  \/ matchhere(r, T, compiled.anchor_end) = "true" )

-----------------------------------------------------------------------------
(* C10 *)

\* C10: the matcher addresses the subject by character: every start offset,
\* every split offset and every advance by one character lands on a character
\* boundary, whatever the encoded width of the characters, so no slice of the
\* subject is taken inside a character.
C10_CharacterBoundaries == Searched => result # PanicText

====
